---- MODULE Spec2Model ----
(***************************************************************************)
(* Model of core/asr.go of res-downloader: the BcutASR transcription       *)
(* session (Run, upload, createTask, pollResult, toText) and the MP4       *)
(* audio extraction it starts from (videoToAudio, detectAudioCodec).       *)
(*                                                                         *)
(* One BcutASR value is modelled.  Run is a sequential blocking flow; its  *)
(* position is pc.  Every remote call is two actions: the one that issues  *)
(* the request (client.Do is entered, the request is in flight) and the    *)
(* one that takes the service's answer, which the environment chooses.     *)
(* A caller may call Run again on the same value after it returned.        *)
(***************************************************************************)
EXTENDS Integers, Sequences, FiniteSets, TLC

(***************************************************************************)
(* Bounds of the model.                                                    *)
(***************************************************************************)
MaxFileLen == 3     \* longest audio file read by upload() for a pass-through input
MaxUrls == 2        \* most upload URLs in an upload plan
MaxPerSize == 2     \* largest per_size in an upload plan
MaxRuns == 2        \* calls of Run on the one session

(***************************************************************************)
(* Program constants.                                                      *)
(***************************************************************************)
MaxPollAttempts == 500

UserAgent == "Bilibili/1.0.0 (https://www.bilibili.com)"

API_REQ_UPLOAD == "resource/create"
API_COMMIT_UPLOAD == "resource/create/complete"
API_CREATE_TASK == "task"
API_QUERY_RESULT == "task/result"

(***************************************************************************)
(* Strings.                                                                *)
(***************************************************************************)
Min(a, b) == IF a < b THEN a ELSE b

\* strings.Join(elems, sep)
RECURSIVE Join(_, _)
Join(elems, sep) ==
    IF Len(elems) = 0 THEN ""
    ELSE IF Len(elems) = 1 THEN elems[1]
    ELSE elems[1] \o sep \o Join(Tail(elems), sep)

\* A path is its stem and its extension (filepath.Ext: from the last dot).
Ext(path) == path.ext

\* the extension compared as it is written
ToLowerNot(s) == s

\* strings.ToLower on the extensions that occur.
ToLower(s) ==
    CASE s = ".MP3" -> ".mp3"
      [] s = ".MP4" -> ".mp4"
      [] s = ".Wav" -> ".wav"
      [] OTHER -> s

\* strings.TrimPrefix(ext, ".") on the extensions that occur.
TrimDot(s) ==
    CASE s = ".mp3" -> "mp3"
      [] s = ".wav" -> "wav"
      [] s = ".flac" -> "flac"
      [] s = ".m4a" -> "m4a"
      [] s = ".ogg" -> "ogg"
      [] s = ".aac" -> "aac"
      [] s = ".wma" -> "wma"
      [] OTHER -> s

audioExts == {".mp3", ".wav", ".flac", ".m4a", ".ogg", ".aac", ".wma"}

\* strings.TrimSuffix(inputPath, filepath.Ext(inputPath)) + outputExt,
\* outputExt being "_temp.mp3" or "_temp.aac".
OutputPath(inputPath, audioFormat) ==
    [stem |-> inputPath.stem \o "_temp", ext |-> "." \o audioFormat]

(***************************************************************************)
(* detectAudioCodec: the codec family and the ADTS profile of an mp4a      *)
(* sample entry.  mp4a.present = FALSE is the nil *MP4AInfo.               *)
(***************************************************************************)
audioCodecAAC == "AAC"
audioCodecMP3 == "MP3"
audioCodecHEAAC == "HEAAC"

OTI_MP3_MPEG1 == 107   \* 0x6B
OTI_MP3_MPEG2 == 105   \* 0x69
OTI_AAC_MAIN == 102    \* 0x66
OTI_AAC_LC == 103      \* 0x67
OTI_AAC_SSR == 104     \* 0x68
OTI_MPEG4_AUDIO == 64  \* 0x40

\* AudOTI 4 (LTP) left to the default of the switch
audOTISwitchNoLTP(aot) ==
    CASE aot = 1 -> [codec |-> audioCodecAAC, profile |-> 0]
      [] aot = 2 -> [codec |-> audioCodecAAC, profile |-> 1]
      [] aot = 3 -> [codec |-> audioCodecAAC, profile |-> 2]
      [] aot = 5 -> [codec |-> audioCodecHEAAC, profile |-> 1]
      [] aot = 29 -> [codec |-> audioCodecHEAAC, profile |-> 1]
      [] OTHER -> [codec |-> audioCodecAAC, profile |-> 1]

\* case 0x40: switch mp4a.AudOTI
audOTISwitch(aot) ==
    CASE aot = 1 -> [codec |-> audioCodecAAC, profile |-> 0]
      [] aot = 2 -> [codec |-> audioCodecAAC, profile |-> 1]
      [] aot = 3 -> [codec |-> audioCodecAAC, profile |-> 2]
      [] aot = 4 -> [codec |-> audioCodecAAC, profile |-> 3]
      [] aot = 5 -> [codec |-> audioCodecHEAAC, profile |-> 1]
      [] aot = 29 -> [codec |-> audioCodecHEAAC, profile |-> 1]
      [] OTHER -> [codec |-> audioCodecAAC, profile |-> 1]

\* switch mp4a.OTI
otiSwitch(oti, aot) ==
    CASE oti = OTI_MP3_MPEG1 -> [codec |-> audioCodecMP3, profile |-> 0]
      [] oti = OTI_MP3_MPEG2 -> [codec |-> audioCodecMP3, profile |-> 0]
      [] oti = OTI_AAC_MAIN -> [codec |-> audioCodecAAC, profile |-> 0]
      [] oti = OTI_AAC_LC -> [codec |-> audioCodecAAC, profile |-> 1]
      [] oti = OTI_AAC_SSR -> [codec |-> audioCodecAAC, profile |-> 2]
      [] oti = OTI_MPEG4_AUDIO -> audOTISwitch(aot)
      [] OTHER -> [codec |-> audioCodecAAC, profile |-> 1]

\* the MPEG-2 layer 3 byte 0x69 left to the default of the switch
detectAudioCodecNoMPEG2(mp4a) ==
    IF ~mp4a.present \/ mp4a.OTI = OTI_MP3_MPEG2
    THEN [codec |-> audioCodecAAC, profile |-> 1]
    ELSE otiSwitch(mp4a.OTI, mp4a.AudOTI)

detectAudioCodec(mp4a) ==
    IF ~mp4a.present THEN [codec |-> audioCodecAAC, profile |-> 1]
    ELSE otiSwitch(mp4a.OTI, mp4a.AudOTI)

(***************************************************************************)
(* aacFrequencyIndex: the ADTS sampling frequency index of a sample rate.  *)
(***************************************************************************)
rates == <<96000, 88200, 64000, 48000, 44100, 32000, 24000, 22050, 16000, 12000,
           11025, 8000, 7350>>

\* the second loop ending on the last index when no entry is low enough
RECURSIVE approxRateNoDefault(_, _)
approxRateNoDefault(sampleRate, i) ==
    IF i > Len(rates) THEN Len(rates) - 1
    ELSE IF sampleRate >= rates[i] THEN i - 1
    ELSE approxRateNoDefault(sampleRate, i + 1)

\* the second loop: the first entry with sampleRate >= r, 4 when there is none
RECURSIVE approxRate(_, _)
approxRate(sampleRate, i) ==
    IF i > Len(rates) THEN 4
    ELSE IF sampleRate >= rates[i] THEN i - 1
    ELSE approxRate(sampleRate, i + 1)

\* the first loop: the entry equal to sampleRate
RECURSIVE matchRate(_, _)
matchRate(sampleRate, i) ==
    IF i > Len(rates) THEN approxRate(sampleRate, 1)
    ELSE IF sampleRate = rates[i] THEN i - 1
    ELSE matchRate(sampleRate, i + 1)

aacFrequencyIndex(sampleRate) == matchRate(sampleRate, 1)

(***************************************************************************)
(* makeADTSHeader: the 7 bytes put before a raw AAC frame.  profile,       *)
(* freqIdx and chanConf are uint8, frameLen is uint16: the arithmetic      *)
(* keeps those widths.                                                     *)
(***************************************************************************)
ADTSHeaderLen == 7

U8(x) == x % 256
U16(x) == x % 65536

RECURSIVE BitOr(_, _)
BitOr(a, b) ==
    IF a = 0 THEN b
    ELSE IF b = 0 THEN a
    ELSE (IF a % 2 = 1 \/ b % 2 = 1 THEN 1 ELSE 0) + 2 * BitOr(a \div 2, b \div 2)

RECURSIVE BitAnd(_, _)
BitAnd(a, b) ==
    IF a = 0 \/ b = 0 THEN 0
    ELSE (IF a % 2 = 1 /\ b % 2 = 1 THEN 1 ELSE 0) + 2 * BitAnd(a \div 2, b \div 2)

\* x << n on a uint8, x >> n
Shl8(x, n) == U8(x * 2^n)
Shr(x, n) == x \div 2^n

\* h[2] with the profile shifted by 5
makeADTSHeaderProfileShift5(profile, freqIdx, chanConf, frameLen) ==
    LET adtsLen == U16(frameLen + ADTSHeaderLen) IN
    << 255,
       241,
       BitOr(BitOr(Shl8(profile, 5), Shl8(freqIdx, 2)), Shr(chanConf, 2)),
       BitOr(Shl8(BitAnd(chanConf, 3), 6), U8(BitAnd(Shr(adtsLen, 11), 3))),
       U8(Shr(adtsLen, 3)),
       BitOr(Shl8(U8(BitAnd(adtsLen, 7)), 5), 31),
       252 >>

makeADTSHeader(profile, freqIdx, chanConf, frameLen) ==
    LET adtsLen == U16(frameLen + ADTSHeaderLen) IN
    << 255,
       241,
       BitOr(BitOr(Shl8(profile, 6), Shl8(freqIdx, 2)), Shr(chanConf, 2)),
       BitOr(Shl8(BitAnd(chanConf, 3), 6), U8(BitAnd(Shr(adtsLen, 11), 3))),
       U8(Shr(adtsLen, 3)),
       BitOr(Shl8(U8(BitAnd(adtsLen, 7)), 5), 31),
       252 >>

(***************************************************************************)
(* videoToAudio on a parsed container.  A container is what gomp4.Probe    *)
(* returns plus what the file system does: probeOk, the tracks in order,   *)
(* createOk (os.Create of the output) and readable, the number of located  *)
(* samples that can be read before Seek/ReadFull fails.                    *)
(* The result: err ("" for nil), the output path, the format tag and the   *)
(* size of the output file.                                                *)
(***************************************************************************)
CodecMP4A == "mp4a"

\* index of the first track with Codec = CodecMP4A, 0 when there is none
RECURSIVE FirstAudioTrack(_, _)
FirstAudioTrack(tracks, i) ==
    IF i > Len(tracks) THEN 0
    ELSE IF tracks[i].Codec = CodecMP4A THEN i
    ELSE FirstAudioTrack(tracks, i + 1)

RECURSIVE SumSeq(_)
SumSeq(s) == IF Len(s) = 0 THEN 0 ELSE Head(s) + SumSeq(Tail(s))

SamplesPerChunk(track) == [k \in 1..Len(track.Chunks) |-> track.Chunks[k].SamplesPerChunk]

\* the inner loop with chunkOffset left at the start of the chunk
RECURSIVE chunkSamplesNoAdvance(_, _, _, _, _)
chunkSamplesNoAdvance(samples, sampleIdx, i, n, chunkOffset) ==
    IF ~(i < n /\ sampleIdx < Len(samples)) THEN <<>>
    ELSE <<[offset |-> chunkOffset, size |-> samples[sampleIdx + 1]]>>
         \o chunkSamplesNoAdvance(samples, sampleIdx + 1, i + 1, n, chunkOffset)

\* for i := 0; i < chunk.SamplesPerChunk && sampleIdx < len(Samples); i++:
\* the sampleInfo of the samples of one chunk, chunkOffset moving on by each size
RECURSIVE chunkSamples(_, _, _, _, _)
chunkSamples(samples, sampleIdx, i, n, chunkOffset) ==
    IF ~(i < n /\ sampleIdx < Len(samples)) THEN <<>>
    ELSE <<[offset |-> chunkOffset, size |-> samples[sampleIdx + 1]]>>
         \o chunkSamples(samples, sampleIdx + 1, i + 1, n,
                         chunkOffset + samples[sampleIdx + 1])

\* for chunkIdx, chunk := range audioTrack.Chunks
RECURSIVE sampleOffsetsFrom(_, _, _)
sampleOffsetsFrom(track, chunkIdx, sampleIdx) ==
    IF chunkIdx > Len(track.Chunks) THEN <<>>
    ELSE LET chunk == track.Chunks[chunkIdx]
             part == chunkSamples(track.Samples, sampleIdx, 0, chunk.SamplesPerChunk,
                                  chunk.DataOffset)
         IN part \o sampleOffsetsFrom(track, chunkIdx + 1, sampleIdx + Len(part))

\* sampleOffsets: offset and size of every located sample
sampleOffsets(track) == sampleOffsetsFrom(track, 1, 0)

LocatedSizes(track) == [k \in 1..Len(sampleOffsets(track)) |-> sampleOffsets(track)[k].size]

\* every located sample read and written, the empty ones too
NonZeroAll(table) == table

\* if si.size == 0 { continue }
NonZero(table) == SelectSeq(table, LAMBDA si : si.size # 0)

\* channelCount := uint8(2), or uint8(MP4A.ChannelCount) when that is positive
channelCountOf(mp4a) ==
    IF mp4a.present /\ mp4a.ChannelCount > 0 THEN U8(mp4a.ChannelCount) ELSE 2

\* the header written before the bytes of an MP3 sample too
frameHeaderAlways(codecType, aacProfile, freqIdx, channelCount, si) ==
    [offset |-> si.offset, size |-> si.size,
     adts |-> makeADTSHeader(aacProfile, freqIdx, channelCount, U16(si.size))]

\* what the loop writes for one sample: the ADTS header for AAC, then the
\* si.size bytes read at si.offset
frame(codecType, aacProfile, freqIdx, channelCount, si) ==
    [offset |-> si.offset, size |-> si.size,
     adts |-> IF codecType = audioCodecAAC
              THEN makeADTSHeader(aacProfile, freqIdx, channelCount, U16(si.size))
              ELSE <<>>]

\* the bytes of the output file
Written(units) == SumSeq([k \in 1..Len(units) |-> Len(units[k].adts) + units[k].size])

\* the HE-AAC test skipped
UnsupportedNever(codecType) == FALSE

\* if codecType == audioCodecHEAAC
Unsupported(codecType) == codecType = audioCodecHEAAC

\* Seek or io.ReadFull fails on one of the samples to read
SampleIOFails(readable, data) == readable < Len(data)

\* an error return: no path, no format; output is what became of the output
\* file ("absent": os.Create was not reached or failed); table is
\* sampleOffsets as far as it was built, units is what the output file holds
VideoErr(e) ==
    [returned |-> TRUE, err |-> e, path |-> [stem |-> "", ext |-> ""], fmt |-> "",
     size |-> 0, track |-> 0, codec |-> "", profile |-> 0, output |-> "absent",
     table |-> <<>>, units |-> <<>>]

videoToAudio(inputPath, c) ==
    IF ~c.openOk THEN VideoErr("open")
    ELSE IF ~c.probeOk THEN VideoErr("probe")
    ELSE LET t == FirstAudioTrack(c.tracks, 1) IN
    IF t = 0 THEN VideoErr("no-audio-track")
    ELSE LET track == c.tracks[t]
             det == detectAudioCodec(track.MP4A)
             audioFormat == IF det.codec = audioCodecMP3 THEN "mp3" ELSE "aac"
             channelCount == channelCountOf(track.MP4A)
             freqIdx == aacFrequencyIndex(track.Timescale)
             table == sampleOffsets(track)
             data == NonZero(table)
             units == [k \in 1..Len(data) |->
                          frame(det.codec, det.profile, freqIdx, channelCount, data[k])]
             picked(e, out) == [VideoErr(e) EXCEPT !.track = t, !.codec = det.codec,
                                                   !.profile = det.profile, !.output = out]
         IN
    IF Unsupported(det.codec) THEN picked("unsupported", "absent")
    ELSE IF ~c.createOk THEN picked("create", "absent")
    ELSE IF Len(table) = 0 THEN picked("no-sample-table", "removed")
    ELSE IF SampleIOFails(c.readable, data)
         THEN [picked("sample-io", "removed") EXCEPT !.table = table]
    ELSE IF Len(data) = 0 THEN [picked("empty-output", "removed") EXCEPT !.table = table]
    ELSE [picked("", "written") EXCEPT
             !.path = OutputPath(inputPath, audioFormat),
             !.table = table,
             !.fmt = audioFormat,
             !.units = units,
             !.size = Written(units)]

(***************************************************************************)
(* The inputs of the model.                                                *)
(***************************************************************************)
\* NewBcutASR(audioPath): a video and an audio file with an upper-case extension
InitPaths == {[stem |-> "v", ext |-> ".mp4"], [stem |-> "a", ext |-> ".MP3"]}

NoMP4A == [present |-> FALSE, OTI |-> 0, AudOTI |-> 0, ChannelCount |-> 0]
MP4A(oti, aot) == [present |-> TRUE, OTI |-> oti, AudOTI |-> aot, ChannelCount |-> 2]

\* Cid is the codec id the gomedia demuxer of src/core/asr.go gives the track
MP4_CODEC_H264 == "H264"
MP4_CODEC_AAC == "AAC"
MP4_CODEC_MP3 == "MP3"
MP4_CODEC_OPUS == "OPUS"

VideoTrack == [Codec |-> "avc1", Cid |-> MP4_CODEC_H264, MP4A |-> NoMP4A,
               Timescale |-> 90000,
               Chunks |-> <<[DataOffset |-> 40, SamplesPerChunk |-> 1]>>,
               Samples |-> <<5>>]
AudioTrack(mp4a, samples) ==
    [Codec |-> CodecMP4A,
     Cid |-> IF mp4a.present /\ mp4a.OTI \in {OTI_MP3_MPEG1, OTI_MP3_MPEG2}
             THEN MP4_CODEC_MP3 ELSE MP4_CODEC_AAC,
     MP4A |-> mp4a, Timescale |-> 44100,
     Chunks |-> <<[DataOffset |-> 50, SamplesPerChunk |-> 2],
                  [DataOffset |-> 60, SamplesPerChunk |-> 1]>>,
     Samples |-> samples]

\* an Opus track: no mp4a sample entry, so go-mp4 gives it no codec
OpusTrack == [Codec |-> "unknown", Cid |-> MP4_CODEC_OPUS, MP4A |-> NoMP4A,
              Timescale |-> 48000,
              Chunks |-> <<[DataOffset |-> 70, SamplesPerChunk |-> 1]>>,
              Samples |-> <<4>>]

Container(tracks) ==
    [openOk |-> TRUE, probeOk |-> TRUE, createOk |-> TRUE, readable |-> 3, tracks |-> tracks]

\* the files a video path may name
Containers ==
    { Container(<<VideoTrack, AudioTrack(MP4A(OTI_MPEG4_AUDIO, 2), <<1, 0, 1>>)>>),
      Container(<<AudioTrack(MP4A(OTI_MP3_MPEG1, 0), <<2, 1>>), VideoTrack>>),
      Container(<<VideoTrack, AudioTrack(MP4A(OTI_MPEG4_AUDIO, 5), <<1, 1>>)>>),
      Container(<<VideoTrack, AudioTrack(MP4A(OTI_MPEG4_AUDIO, 2), <<0, 0>>)>>),
      Container(<<VideoTrack>>),
      [Container(<<VideoTrack>>) EXCEPT !.probeOk = FALSE],
      [Container(<<AudioTrack(NoMP4A, <<1, 1>>)>>) EXCEPT !.readable = 1] }

\* the bytes of a file of length n: byte k is k, so that a slice tells its place
FileBytes(n) == [k \in 1..n |-> k]

\* os.ReadFile of a pass-through input: an error, or the bytes
FileReads ==
    {[err |-> "readfile", data |-> <<>>]}
    \cup {[err |-> "", data |-> FileBytes(n)] : n \in 0..MaxFileLen}

\* HTTP statuses the service answers a JSON call with, and a chunk PUT with
JsonStatuses == {200, 500}
PutStatuses == {200, 201, 204, 500}

TransportError == [err |-> "transport"]
NotJson(s) == [err |-> "", status |-> s, json |-> FALSE]

UploadURLs(n) == [k \in 1..n |-> "put-url-" \o ToString(k)]

\* the answers to request-upload in the run-th call of Run
PlanResponses(run) ==
    {TransportError}
    \cup {NotJson(s) : s \in JsonStatuses}
    \cup {[err |-> "", status |-> s, json |-> TRUE, code |-> c,
           data |-> [resource_id |-> "res-" \o ToString(run),
                     upload_id |-> "upl-" \o ToString(run),
                     in_boss_key |-> "key-" \o ToString(run),
                     upload_urls |-> UploadURLs(n),
                     per_size |-> p,
                     download_url |-> d]] :
              s \in JsonStatuses, c \in {0, 1}, n \in 0..MaxUrls,
              p \in 0..MaxPerSize, d \in {"", "dl-plan"}}

\* the answers to the PUT of chunk i (0-based): the ETag may come under
\* either spelling of the header name, or not at all
PutResponses(i) ==
    {TransportError}
    \cup {[err |-> "", status |-> s, header |-> h] :
              s \in PutStatuses,
              h \in {[name |-> "", value |-> ""],
                     [name |-> "Etag", value |-> "etag-" \o ToString(i)],
                     [name |-> "ETag", value |-> "etag-" \o ToString(i)]}}

CommitResponses(run) ==
    {TransportError}
    \cup {NotJson(s) : s \in JsonStatuses}
    \cup {[err |-> "", status |-> s, json |-> TRUE, code |-> c,
           data |-> [download_url |-> d, resource_id |-> "res-" \o ToString(run)]] :
              s \in JsonStatuses, c \in {0, 1}, d \in {"", "dl-commit"}}

TaskResponses(run) ==
    {TransportError}
    \cup {NotJson(s) : s \in JsonStatuses}
    \cup {[err |-> "", status |-> s, json |-> TRUE, code |-> c, message |-> "m",
           data |-> [task_id |-> "task-" \o ToString(run)]] :
              s \in JsonStatuses, c \in {0, 1}}

\* data.result of a query-result answer: a JSON string, well-formed or not
WellFormed(utterances) == [json |-> TRUE, utterances |-> utterances]
Malformed == [json |-> FALSE, utterances |-> <<>>]
Utterance(t, a, b) == [transcript |-> t, start_time |-> a, end_time |-> b]

\* the answers to a query-result request
PollAnswer(s, c, st, rm, rs) ==
    [err |-> "", status |-> s, json |-> TRUE, code |-> c, message |-> "m",
     data |-> [state |-> st, remark |-> rm, result |-> rs]]

PollResponses ==
    { TransportError, NotJson(200),
      PollAnswer(200, 0, 0, "", Malformed),
      PollAnswer(200, 0, 1, "", Malformed),
      PollAnswer(500, 0, 2, "", Malformed),
      PollAnswer(200, 1, 1, "", Malformed),
      PollAnswer(200, 1, 3, "bad audio", Malformed),
      PollAnswer(200, 1, 4, "", WellFormed(<<Utterance("a", 0, 10)>>)),
      PollAnswer(200, 0, 3, "", Malformed),
      PollAnswer(200, 0, 3, "bad audio", Malformed),
      PollAnswer(200, 0, 4, "", Malformed),
      PollAnswer(200, 0, 4, "", WellFormed(<<>>)),
      PollAnswer(500, 0, 4, "", WellFormed(<<Utterance("a", 0, 10)>>)),
      PollAnswer(200, 0, 4, "",
                 WellFormed(<<Utterance("a", 0, 10), Utterance("b", 10, 20),
                              Utterance("c", 20, 30)>>)) }

(***************************************************************************)
(* The state.                                                              *)
(***************************************************************************)
VARIABLES
    asr,        \* the BcutASR value: AudioPath, AudioFormat, ResourceID, DownloadURL,
                \* TaskID, UploadID, InBossKey, Etags
    pc,         \* where Run is
    runs,       \* calls of Run so far
    fileData,   \* upload(): the bytes read from AudioPath
    plan,       \* upload(): uploadResp.Data.UploadURLs and perSize
    idx,        \* upload(): the index i of the chunk loop (0-based)
    pollI,      \* pollResult(): the attempt counter i
    ret,        \* what the last Run returned: text, err ("" for nil) and its cause
    inflight,   \* the requests sent and not yet answered
    sent,       \* the requests of the operation (upload, createTask, pollResult)
                \* last entered by the current Run, in order; a query-result
                \* request equal to the one before it is not repeated
    phases,     \* the kinds of the requests of the current Run, in order,
                \* repeats of the same kind merged
    lastResp,   \* the answer last received, and to which kind of request
    got,        \* what the service handed out in the current Run: the plan's and the
                \* commit's download_url, the ETag of every accepted PUT, the task_id
    call,       \* the function entered on its own, or by the current Run before
                \* upload(): its name, the source file it is of and its argument
    result      \* what that function returned

vars == <<asr, pc, runs, fileData, plan, idx, pollI, ret, inflight, sent,
          phases, lastResp, got, call, result>>

NoPlan == [urls |-> <<>>, perSize |-> 0]
NoRet == [text |-> "", err |-> "", cause |-> ""]
NoResp == [kind |-> "", r |-> [err |-> ""], final |-> FALSE]
NoGot == [planUrl |-> "", commitUrl |-> "", etags |-> <<>>, taskId |-> ""]
NoCall == [fn |-> "", src |-> "", arg |-> <<>>]
NoResult == [returned |-> FALSE]

\* NewBcutASR(audioPath)
NewBcutASR(audioPath) ==
    [AudioPath |-> audioPath, AudioFormat |-> "", ResourceID |-> "", DownloadURL |-> "",
     TaskID |-> "", UploadID |-> "", InBossKey |-> "", Etags |-> <<>>]

Init ==
    /\ asr \in {NewBcutASR(path) : path \in InitPaths}
    /\ pc = "idle"
    /\ runs = 0
    /\ fileData = <<>>
    /\ plan = NoPlan
    /\ idx = 0
    /\ pollI = 0
    /\ ret = NoRet
    /\ inflight = {}
    /\ sent = <<>>
    /\ phases = <<>>
    /\ lastResp = NoResp
    /\ got = NoGot
    /\ call = NoCall
    /\ result = NoResult

(***************************************************************************)
(* Requests.                                                               *)
(***************************************************************************)
FormType == "application/x-www-form-urlencoded"
JsonType == "application/json"

RequestUpload(a, data) ==
    LET audioFmt == IF a.AudioFormat = "" THEN "mp3" ELSE a.AudioFormat IN
    [kind |-> "request-upload", method |-> "POST", url |-> API_REQ_UPLOAD,
     ua |-> UserAgent, ctype |-> FormType,
     form |-> [type |-> "2", name |-> "audio." \o audioFmt, size |-> ToString(Len(data)),
               resource_file_type |-> audioFmt, model_id |-> "7"]]

\* http.NewRequest("PUT", uploadURL, chunk): the program sets no header on it
ChunkPut(uploadURL, i, chunk) ==
    [kind |-> "put", method |-> "PUT", url |-> uploadURL, ua |-> "", ctype |-> "",
     index |-> i, body |-> chunk]

CompleteUpload(a) ==
    [kind |-> "complete-upload", method |-> "POST", url |-> API_COMMIT_UPLOAD,
     ua |-> UserAgent, ctype |-> FormType,
     form |-> [in_boss_key |-> a.InBossKey, resource_id |-> a.ResourceID,
               etags |-> Join(a.Etags, ","), upload_id |-> a.UploadID, model_id |-> "7"]]

\* setHeaders: User-Agent and Content-Type: application/json
CreateTask(a) ==
    [kind |-> "create-task", method |-> "POST", url |-> API_CREATE_TASK,
     ua |-> UserAgent, ctype |-> JsonType,
     body |-> [resource |-> a.DownloadURL, model_id |-> "7"]]

QueryResult(a) ==
    [kind |-> "query-result", method |-> "GET", url |-> API_QUERY_RESULT,
     ua |-> UserAgent, ctype |-> "",
     query |-> [model_id |-> "7", task_id |-> a.TaskID]]

\* the request enters the network, the log of its operation and the phases
Send(req, log, ph) ==
    /\ inflight' = inflight \cup {req}
    /\ sent' = IF req.kind = "query-result" /\ Len(log) > 0 /\ log[Len(log)] = req
               THEN log ELSE Append(log, req)
    /\ phases' = IF Len(ph) > 0 /\ ph[Len(ph)] = req.kind THEN ph ELSE Append(ph, req.kind)

\* the answer resp to the one request of that kind in flight is taken
\* (final: it answers the query of the last attempt the poll loop allows)
Receive(kind, resp) ==
    /\ inflight' = {q \in inflight : q.kind # kind}
    /\ lastResp' = [kind |-> kind, r |-> resp,
                    final |-> kind = "query-result" /\ pollI + 1 >= MaxPollAttempts]

Pending(kind) == \E q \in inflight : q.kind = kind

(***************************************************************************)
(* Run, after each of its steps.                                           *)
(***************************************************************************)
\* Run returns (text, err): the locals of the step that ends are gone
Return(text, err, cause) ==
    /\ pc' = "returned"
    /\ ret' = [text |-> text, err |-> err, cause |-> cause]
    /\ fileData' = <<>>
    /\ plan' = NoPlan
    /\ idx' = 0
    /\ pollI' = 0

\* Run with the error of upload() dropped
RunIgnoresUploadError(cause) ==
    /\ pc' = "createTask"
    /\ fileData' = <<>>
    /\ plan' = NoPlan
    /\ idx' = 0
    /\ UNCHANGED <<pollI, ret>>

\* if err := asr.upload(); err != nil { return "", 上传失败 }
RunAfterUpload(cause) ==
    IF cause # "" THEN Return("", "upload", cause)
    ELSE /\ pc' = "createTask"
         /\ fileData' = <<>>
         /\ plan' = NoPlan
         /\ idx' = 0
         /\ UNCHANGED <<pollI, ret>>

\* if err := asr.createTask(); err != nil { return "", 创建任务失败 }
RunAfterCreateTask(cause) ==
    IF cause # "" THEN Return("", "createTask", cause)
    ELSE /\ pc' = "pollLoop"
         /\ pollI' = 0
         /\ UNCHANGED <<fileData, plan, idx, ret>>

\* toText: the transcripts, a newline between two of them
RECURSIVE toText(_)
toText(utterances) ==
    IF Len(utterances) = 0 THEN ""
    ELSE IF Len(utterances) = 1 THEN utterances[1].transcript
    ELSE utterances[1].transcript \o "\n" \o toText(Tail(utterances))

\* result, err := asr.pollResult(); err != nil { return "", 查询结果失败 }
RunAfterPoll(utterances, cause) ==
    IF cause # "" THEN Return("", "pollResult", cause)
    ELSE Return(toText(utterances), "", "")

(***************************************************************************)
(* Run up to the first remote call: the pass-through test, videoToAudio,   *)
(* and upload() up to client.Do of request-upload.                         *)
(***************************************************************************)
uploadBegin(a, file) ==
    IF file.err # ""
    THEN /\ RunAfterUpload("readfile")
         /\ sent' = <<>>
         /\ phases' = <<>>
         /\ UNCHANGED inflight
    ELSE /\ fileData' = file.data
         /\ pc' = "planWait"
         /\ Send(RequestUpload(a, file.data), <<>>, <<>>)
         /\ ret' = NoRet
         /\ UNCHANGED <<plan, idx, pollI>>

RunBegin ==
    /\ pc \in {"idle", "returned"}
    /\ runs < MaxRuns
    /\ runs' = runs + 1
    /\ lastResp' = NoResp
    /\ got' = NoGot
    /\ \E c \in Containers, rd \in FileReads :
         LET ext == ToLower(Ext(asr.AudioPath))
             isAudio == ext \in audioExts
             v == videoToAudio(asr.AudioPath, c)
         IN /\ call' = IF isAudio THEN NoCall
                       ELSE [fn |-> "videoToAudio", src |-> "unnamed/part_001",
                             arg |-> [inputPath |-> asr.AudioPath, file |-> c]]
            /\ result' = IF isAudio THEN NoResult ELSE v
            /\ IF ~isAudio /\ v.err # ""
                  THEN /\ Return("", "videoToAudio", v.err)
                       /\ sent' = <<>>
                       /\ phases' = <<>>
                       /\ UNCHANGED <<asr, inflight>>
                  ELSE LET a == [asr EXCEPT
                                   !.AudioPath = IF isAudio THEN @ ELSE v.path,
                                   !.AudioFormat = IF isAudio THEN TrimDot(ext) ELSE v.fmt]
                           file == IF isAudio \/ rd.err # "" THEN rd
                                   ELSE [err |-> "", data |-> FileBytes(v.size)]
                       IN /\ asr' = a
                          /\ uploadBegin(a, file)

(***************************************************************************)
(* upload(): the answer to request-upload.                                 *)
(***************************************************************************)
\* client.Do, Decode and the code test of request-upload: "" when all pass
uploadRespFailure(resp) ==
    IF resp.err # "" THEN "transport"
    ELSE IF ~resp.json THEN "decode"
    ELSE IF resp.code # 0 THEN "code"
    ELSE ""

\* the list of an earlier upload() kept
KeepEtags(etags) == etags

\* asr.Etags = []string{}
ResetEtags(etags) == <<>>

UploadPlanRecv ==
    /\ pc = "planWait"
    /\ Pending("request-upload")
    /\ \E resp \in PlanResponses(runs) :
         /\ Receive("request-upload", resp)
         /\ IF uploadRespFailure(resp) # ""
            THEN /\ RunAfterUpload(uploadRespFailure(resp))
                 /\ UNCHANGED <<asr, got>>
            ELSE /\ asr' = [asr EXCEPT !.ResourceID = resp.data.resource_id,
                                       !.DownloadURL = resp.data.download_url,
                                       !.UploadID = resp.data.upload_id,
                                       !.InBossKey = resp.data.in_boss_key,
                                       !.Etags = ResetEtags(@)]
                 /\ plan' = [urls |-> resp.data.upload_urls, perSize |-> resp.data.per_size]
                 /\ idx' = 0
                 /\ pc' = "putLoop"
                 /\ got' = [got EXCEPT !.planUrl = resp.data.download_url]
                 /\ UNCHANGED <<fileData, pollI, ret>>
    /\ UNCHANGED <<runs, sent, phases, call, result>>

(***************************************************************************)
(* upload(): the chunk loop.                                               *)
(***************************************************************************)
\* start := int64(i) * perSize
ChunkStart(i, perSize) == i * perSize

\* end := start + perSize; if end > len(fileData) { end = len(fileData) }
ChunkEnd(start, perSize, n) == IF start + perSize > n THEN n ELSE start + perSize

\* fileData[start:end] panics unless 0 <= start <= end (end <= cap holds here)
SliceInRange(start, end) == 0 <= start /\ start <= end

\* the loop with the PUT handed to the network and not waited for
ChunkPutSendAsync ==
    /\ pc = "putLoop"
    /\ idx < Len(plan.urls)
    /\ LET start == ChunkStart(idx, plan.perSize)
           end == ChunkEnd(start, plan.perSize, Len(fileData))
       IN IF ~SliceInRange(start, end)
          THEN /\ pc' = "panic"
               /\ UNCHANGED <<inflight, sent, phases, idx>>
          ELSE /\ pc' = "putLoop"
               /\ idx' = idx + 1
               /\ Send(ChunkPut(plan.urls[idx + 1], idx, SubSeq(fileData, start + 1, end)),
                       sent, phases)
    /\ UNCHANGED <<asr, runs, fileData, plan, pollI, ret, lastResp, got, call, result>>

\* the loop body up to uploadClient.Do: the slice, the PUT
ChunkPutSend ==
    /\ pc = "putLoop"
    /\ idx < Len(plan.urls)
    /\ LET start == ChunkStart(idx, plan.perSize)
           end == ChunkEnd(start, plan.perSize, Len(fileData))
       IN IF ~SliceInRange(start, end)
          THEN /\ pc' = "panic"
               /\ UNCHANGED <<inflight, sent, phases>>
          ELSE /\ pc' = "putWait"
               /\ Send(ChunkPut(plan.urls[idx + 1], idx, SubSeq(fileData, start + 1, end)),
                       sent, phases)
    /\ UNCHANGED <<asr, runs, fileData, plan, idx, pollI, ret, lastResp, got,
                   call, result>>

\* every 2xx status taken for success
PutAccepted2xx(status) == status >= 200 /\ status <= 299

\* StatusCode != 200 && StatusCode != 201 is the failure
PutAccepted(status) == status = 200 \/ status = 201

\* textproto.CanonicalMIMEHeaderKey on the names that occur
CanonicalKey(name) ==
    CASE name = "ETag" -> "Etag"
      [] name = "etag" -> "Etag"
      [] OTHER -> name

\* http.Header.Get: the value under the canonical form of key, else ""
HeaderGet(header, key) ==
    IF header.name # "" /\ CanonicalKey(header.name) = CanonicalKey(key)
    THEN header.value ELSE ""

\* etag := Header.Get("Etag"); if etag == "" { etag = Header.Get("ETag") }
EtagOf(header) ==
    IF HeaderGet(header, "Etag") # "" THEN HeaderGet(header, "Etag")
    ELSE HeaderGet(header, "ETag")

\* the ETag put in front of the list
PrependEtag(etags, etag) == <<etag>> \o etags

\* asr.Etags = append(asr.Etags, etag)
AppendEtag(etags, etag) == Append(etags, etag)

\* a failed chunk PUT tried again
PutRetried(cause) ==
    /\ pc' = "putLoop"
    /\ UNCHANGED <<asr, got, fileData, plan, idx, pollI, ret>>

\* a chunk PUT failed: upload() returns the error
PutFailed(cause) ==
    /\ RunAfterUpload(cause)
    /\ UNCHANGED <<asr, got>>

ChunkPutRecv ==
    /\ pc = "putWait"
    /\ Pending("put")
    /\ \E resp \in PutResponses(idx) :
         /\ Receive("put", resp)
         /\ IF resp.err # "" THEN PutFailed("transport")
            ELSE IF ~PutAccepted(resp.status) THEN PutFailed("status")
            ELSE /\ asr' = [asr EXCEPT !.Etags = AppendEtag(@, EtagOf(resp.header))]
                 /\ got' = [got EXCEPT !.etags = Append(@, resp.header.value)]
                 /\ idx' = idx + 1
                 /\ pc' = "putLoop"
                 /\ UNCHANGED <<fileData, plan, pollI, ret>>
    /\ UNCHANGED <<runs, sent, phases, call, result>>

(***************************************************************************)
(* upload(): the commit.                                                   *)
(***************************************************************************)
CommitSend ==
    /\ pc = "putLoop"
    /\ idx >= Len(plan.urls)
    /\ pc' = "commitWait"
    /\ Send(CompleteUpload(asr), sent, phases)
    /\ UNCHANGED <<asr, runs, fileData, plan, idx, pollI, ret, lastResp, got,
                   call, result>>

\* client.Do, ReadAll, Unmarshal and the code test of complete-upload
commitFailure(resp) ==
    IF resp.err # "" THEN "transport"
    ELSE IF ~resp.json THEN "decode"
    ELSE IF resp.code # 0 THEN "code"
    ELSE ""

\* the commit's download_url taken even when it is empty
AdoptAlways(current, committed) == committed

\* if commitResult.Data.DownloadURL != "" { asr.DownloadURL = ... }
AdoptDownloadURL(current, committed) == IF committed # "" THEN committed ELSE current

CommitRecv ==
    /\ pc = "commitWait"
    /\ Pending("complete-upload")
    /\ \E resp \in CommitResponses(runs) :
         /\ Receive("complete-upload", resp)
         /\ RunAfterUpload(commitFailure(resp))
         /\ IF commitFailure(resp) # ""
            THEN UNCHANGED <<asr, got>>
            ELSE /\ asr' = [asr EXCEPT !.DownloadURL = AdoptDownloadURL(@, resp.data.download_url)]
                 /\ got' = [got EXCEPT !.commitUrl = resp.data.download_url]
    /\ UNCHANGED <<runs, sent, phases, call, result>>

(***************************************************************************)
(* createTask().                                                           *)
(***************************************************************************)
CreateTaskSend ==
    /\ pc = "createTask"
    /\ pc' = "taskWait"
    /\ Send(CreateTask(asr), <<>>, phases)
    /\ UNCHANGED <<asr, runs, fileData, plan, idx, pollI, ret, lastResp, got,
                   call, result>>

\* client.Do, ReadAll, Unmarshal and the code test of create-task
taskFailure(resp) ==
    IF resp.err # "" THEN "transport"
    ELSE IF ~resp.json THEN "decode"
    ELSE IF resp.code # 0 THEN "code"
    ELSE ""

\* the task_id stored before the code is tested
TaskIDStoredFirst(current, resp) ==
    IF resp.err # "" \/ ~resp.json THEN current ELSE resp.data.task_id

\* asr.TaskID = taskResp.Data.TaskID, reached only when nothing failed
TaskIDAfter(current, resp) ==
    IF taskFailure(resp) # "" THEN current ELSE resp.data.task_id

CreateTaskRecv ==
    /\ pc = "taskWait"
    /\ Pending("create-task")
    /\ \E resp \in TaskResponses(runs) :
         /\ Receive("create-task", resp)
         /\ RunAfterCreateTask(taskFailure(resp))
         /\ asr' = [asr EXCEPT !.TaskID = TaskIDAfter(@, resp)]
         /\ got' = IF taskFailure(resp) # "" THEN got
                   ELSE [got EXCEPT !.taskId = resp.data.task_id]
    /\ UNCHANGED <<runs, sent, phases, call, result>>

(***************************************************************************)
(* pollResult().                                                           *)
(***************************************************************************)
\* for i := 0; i < 500; i++ { ... client.Do(req)
PollSend ==
    /\ pc = "pollLoop"
    /\ pollI < MaxPollAttempts
    /\ pc' = "pollWait"
    /\ Send(QueryResult(asr), IF pollI = 0 THEN <<>> ELSE sent, phases)
    /\ UNCHANGED <<asr, runs, fileData, plan, idx, pollI, ret, lastResp, got,
                   call, result>>

\* the loop ran out: return nil, 查询超时
PollTimeout ==
    /\ pc = "pollLoop"
    /\ pollI >= MaxPollAttempts
    /\ RunAfterPoll(<<>>, "timeout")
    /\ UNCHANGED <<asr, runs, inflight, sent, phases, lastResp, got, call, result>>

\* the code test skipped for an answer that says state 4
queryFailureDoneFirst(resp) ==
    IF resp.err # "" THEN "transport"
    ELSE IF ~resp.json THEN "decode"
    ELSE IF resp.code # 0 /\ resp.data.state # 4 THEN "code"
    ELSE ""

\* client.Do, ReadAll, Unmarshal and the code test of query-result
queryFailure(resp) ==
    IF resp.err # "" THEN "transport"
    ELSE IF ~resp.json THEN "decode"
    ELSE IF resp.code # 0 THEN "code"
    ELSE ""

\* case 3 with the remark left out of the message
FailedMessageNoRemark(remark) == "ASR failed"

\* case 3: the remark, or the generic message when it is empty
FailedPrefix == "ASR failed: "
FailedMessage(remark) ==
    FailedPrefix \o (IF remark = "" THEN "unknown error" ELSE remark)

\* what the switch makes of an answer: whether pollResult() returns, and what
Ends(cause, utterances) == [end |-> TRUE, cause |-> cause, utterances |-> utterances]
Continues == [end |-> FALSE, cause |-> "", utterances |-> <<>>]

\* state 4 taken for a task still running
switchDoneContinues(data) ==
    IF data.state = 3 THEN Ends(FailedMessage(data.remark), <<>>) ELSE Continues

\* state 4 with a result that does not parse taken for an empty transcript
switchParseErrorSwallowed(data) ==
    IF data.state = 4
    THEN Ends("", IF data.result.json THEN data.result.utterances ELSE <<>>)
    ELSE IF data.state = 3 THEN Ends(FailedMessage(data.remark), <<>>)
    ELSE Continues

\* switch resultResp.Data.State { case 4: ... case 3: ... }
stateSwitch(data) ==
    IF data.state = 4
    THEN IF ~data.result.json THEN Ends("result-parse", <<>>)
         ELSE Ends("", data.result.utterances)
    ELSE IF data.state = 3 THEN Ends(FailedMessage(data.remark), <<>>)
    ELSE Continues

\* the loop counter left as it is
SameAttempt(i) == i

\* i++
NextAttempt(i) == i + 1

PollRecv ==
    /\ pc = "pollWait"
    /\ Pending("query-result")
    /\ \E resp \in PollResponses :
         /\ Receive("query-result", resp)
         /\ IF queryFailure(resp) # "" THEN RunAfterPoll(<<>>, queryFailure(resp))
            ELSE IF stateSwitch(resp.data).end
                 THEN RunAfterPoll(stateSwitch(resp.data).utterances,
                                   stateSwitch(resp.data).cause)
            ELSE /\ pollI' = NextAttempt(pollI)
                 /\ pc' = "pollLoop"
                 /\ UNCHANGED <<fileData, plan, idx, ret>>
    /\ UNCHANGED <<asr, runs, sent, phases, got, call, result>>

(***************************************************************************)
(* The specification.                                                      *)
(***************************************************************************)
Next ==
    \/ RunBegin
    \/ UploadPlanRecv
    \/ ChunkPutSend
    \/ ChunkPutRecv
    \/ CommitSend
    \/ CommitRecv
    \/ CreateTaskSend
    \/ CreateTaskRecv
    \/ PollSend
    \/ PollTimeout
    \/ PollRecv

Spec == Init /\ [][Next]_vars

TypeOK ==
    /\ pc \in {"idle", "planWait", "putLoop", "putWait", "commitWait", "createTask",
               "taskWait", "pollLoop", "pollWait", "returned", "panic"}
    /\ runs \in 0..MaxRuns
    /\ idx \in 0..MaxUrls
    /\ pollI \in 0..MaxPollAttempts
    /\ Cardinality(inflight) <= 1

(***************************************************************************)
(* What the claims speak of.                                               *)
(***************************************************************************)
Range(s) == {s[k] : k \in 1..Len(s)}
Last(s) == s[Len(s)]
IsPrefix(s, t) == Len(s) <= Len(t) /\ SubSeq(t, 1, Len(s)) = s
Requests == inflight \cup Range(sent)
Puts == SelectSeq(sent, LAMBDA q : q.kind = "put")
Returned == pc = "returned"

\* a JSON call is refused: no answer, no JSON, or a non-zero code
Refused(r) == r.err # "" \/ ~r.json \/ r.code # 0
\* the answer is a decoded JSON body
Decoded(r) == r.err = "" /\ r.json
\* a chunk PUT is turned down: no answer, or a status other than 200 and 201
TurnedDown(r) == r.err # "" \/ r.status \notin {200, 201}

\* the answer last received makes its operation fail
AnswerFails ==
    CASE lastResp.kind = "" -> FALSE
      [] lastResp.kind = "put" -> TurnedDown(lastResp.r)
      [] lastResp.kind = "query-result" ->
            \/ Refused(lastResp.r)
            \/ lastResp.r.data.state = 3
            \/ lastResp.r.data.state = 4 /\ ~lastResp.r.data.result.json
      [] OTHER -> Refused(lastResp.r)

\* the step of Run a request belongs to
StepOf(kind) ==
    CASE kind = "create-task" -> "createTask"
      [] kind = "query-result" -> "pollResult"
      [] OTHER -> "upload"

FullOrder == <<"request-upload", "put", "complete-upload", "create-task", "query-result">>
FullOrderNoPut == <<"request-upload", "complete-upload", "create-task", "query-result">>

(***************************************************************************)
(* C1: in every Run the remote calls come in the order request-upload,     *)
(* chunk PUTs, complete-upload, create-task, query-result; create-task is  *)
(* sent only after the commit was answered without failure (upload()       *)
(* returned nil), the first query-result only after create-task was        *)
(* answered without failure; an answer that makes a step fail makes Run    *)
(* return that step's error with nothing in flight and no request after    *)
(* the failed one, and a Run that returned an error of a step has sent no  *)
(* request of a later step.                                                *)
(***************************************************************************)
C1_CallOrder ==
    /\ IsPrefix(phases, FullOrder) \/ IsPrefix(phases, FullOrderNoPut)
    /\ pc = "taskWait" =>
          lastResp.kind = "complete-upload" /\ ~Refused(lastResp.r)
    /\ pc = "pollWait" /\ pollI = 0 =>
          lastResp.kind = "create-task" /\ ~Refused(lastResp.r)
    /\ AnswerFails =>
          /\ Returned
          /\ ret.err = StepOf(lastResp.kind)
          /\ inflight = {}
          /\ Last(phases) = lastResp.kind
    /\ Returned => inflight = {}
    /\ Returned /\ ret.err = "videoToAudio" => phases = <<>>
    /\ Returned /\ ret.err = "upload" =>
          "create-task" \notin Range(phases) /\ "query-result" \notin Range(phases)
    /\ Returned /\ ret.err = "createTask" => "query-result" \notin Range(phases)
    /\ Returned /\ ret.err = "" => phases \in {FullOrder, FullOrderNoPut}

\* a Run went through every step, chunk PUTs included, and returned the text
C1_Witness == Returned /\ ret.err = "" /\ phases = FullOrder /\ ret.text = "a\nb\nc"

(***************************************************************************)
(* C2: for every file length L and every plan with per_size p > 0, when    *)
(* upload() has sent its chunks and commits, it has sent ceil(L/p) PUTs,   *)
(* chunk i carrying the bytes [i*p, min((i+1)*p, L)), and the bodies in    *)
(* index order make up the whole file.                                     *)
(***************************************************************************)
CeilDiv(n, p) == (n + p - 1) \div p

RECURSIVE Concat(_)
Concat(bodies) == IF Len(bodies) = 0 THEN <<>> ELSE Head(bodies).body \o Concat(Tail(bodies))

C2_ChunksCoverFile ==
    pc = "commitWait" /\ plan.perSize > 0 =>
        LET p == plan.perSize
            L == Len(fileData)
        IN /\ Len(Puts) = CeilDiv(L, p)
           /\ \A k \in 1..Len(Puts) :
                 Puts[k].body = SubSeq(fileData, (k - 1) * p + 1, Min(k * p, L))
           /\ Concat(Puts) = fileData

(***************************************************************************)
(* C3: whenever the complete-upload request is sent, its etags field is    *)
(* the comma-joined list of the ETags the service returned to this call's  *)
(* chunk PUTs, in chunk order, one entry per upload URL.                   *)
(***************************************************************************)
C3_EtagsInOrder ==
    /\ \A q \in Requests :
          q.kind = "complete-upload" => q.form.etags = Join(got.etags, ",")
    /\ pc = "commitWait" =>
          /\ asr.Etags = got.etags
          /\ Len(asr.Etags) = Len(plan.urls)
          /\ \A k \in 1..Len(Puts) : Puts[k].url = plan.urls[k]

\* a commit is in flight after two PUTs that returned different ETags
C3_Witness ==
    /\ pc = "commitWait"
    /\ got.etags = <<"etag-0", "etag-1">>
    /\ \E q \in inflight : q.kind = "complete-upload" /\ q.form.etags = "etag-0,etag-1"

(***************************************************************************)
(* C4: chunk PUTs are sequential and in index order: never more than one   *)
(* request in flight, the k-th PUT sent is chunk k-1, the PUT of chunk     *)
(* i+1 is in flight only after the answer to the PUT of chunk i was        *)
(* received and accepted, and the commit is sent only after the last PUT   *)
(* was accepted.                                                           *)
(***************************************************************************)
C4_SequentialPuts ==
    /\ Cardinality(inflight) <= 1
    /\ \A k \in 1..Len(Puts) : Puts[k].index = k - 1
    /\ pc = "putWait" =>
          /\ \E q \in inflight : q.kind = "put" /\ q.index = idx
          /\ Len(Puts) = idx + 1
          /\ Len(got.etags) = idx
          /\ idx > 0 => lastResp.kind = "put" /\ ~TurnedDown(lastResp.r)
    /\ pc = "commitWait" =>
          /\ Len(Puts) = Len(plan.urls)
          /\ Len(got.etags) = Len(plan.urls)
          /\ Len(plan.urls) > 0 => lastResp.kind = "put" /\ ~TurnedDown(lastResp.r)

\* the second chunk is in flight, the first was accepted
C4_Witness ==
    /\ pc = "putWait"
    /\ idx = 1
    /\ \E q \in inflight : q.kind = "put" /\ q.index = 1 /\ q.body = <<3>>

(***************************************************************************)
(* C5: upload() takes a chunk PUT for successful exactly when its status   *)
(* is 200 or 201: with any other status upload() returns an error, with    *)
(* 200 or 201 it goes on and keeps the ETag.                               *)
(***************************************************************************)
C5_PutStatus ==
    lastResp.kind = "put" /\ lastResp.r.err = "" =>
        IF lastResp.r.status \in {200, 201}
        THEN /\ pc \in {"putLoop", "putWait", "commitWait", "panic"}
             /\ Len(asr.Etags) > 0
             /\ Last(asr.Etags) = lastResp.r.header.value
        ELSE /\ Returned
             /\ ret.err = "upload"
             /\ ret.cause = "status"

\* a PUT answered 204 made upload() fail
C5_Witness ==
    /\ lastResp.kind = "put"
    /\ lastResp.r.err = ""
    /\ lastResp.r.status = 204
    /\ Returned
    /\ ret.err = "upload"

(***************************************************************************)
(* C6: no chunk is sent twice within one upload(), and once a chunk PUT    *)
(* fails (no answer, or a rejected status) that PUT is the last request    *)
(* of the call: no further PUT, no complete-upload.                        *)
(***************************************************************************)
C6_NoChunkRetry ==
    /\ \A j, k \in 1..Len(Puts) :
          j # k => Puts[j].index # Puts[k].index /\ Puts[j].url # Puts[k].url
    /\ lastResp.kind = "put" /\ TurnedDown(lastResp.r) =>
          /\ Returned
          /\ ret.err = "upload"
          /\ inflight = {}
          /\ Last(sent).kind = "put"
          /\ Last(sent).index = Len(got.etags)
          /\ Len(Puts) = Len(got.etags) + 1
          /\ \A q \in Requests : q.kind # "complete-upload"

\* the second chunk PUT failed after the first was accepted
C6_Witness ==
    /\ Returned
    /\ lastResp.kind = "put"
    /\ TurnedDown(lastResp.r)
    /\ Len(got.etags) = 1
    /\ Len(Puts) = 2

(***************************************************************************)
(* C7: after a successful upload() the session's DownloadURL is the        *)
(* download_url of the commit's answer when that is not empty and the      *)
(* plan's otherwise, and the resource of the create-task request that      *)
(* follows is that DownloadURL.                                            *)
(***************************************************************************)
AdoptedUrl == IF got.commitUrl # "" THEN got.commitUrl ELSE got.planUrl

C7_DownloadUrl ==
    /\ pc \in {"createTask", "taskWait"} => asr.DownloadURL = AdoptedUrl
    /\ pc = "createTask" =>
          /\ lastResp.kind = "complete-upload"
          /\ got.commitUrl = lastResp.r.data.download_url
    /\ \A q \in Requests : q.kind = "create-task" => q.body.resource = AdoptedUrl

\* create-task is in flight with the plan's URL: the commit returned none
C7_Witness ==
    /\ pc = "taskWait"
    /\ got.planUrl = "dl-plan"
    /\ got.commitUrl = ""
    /\ \E q \in inflight : q.kind = "create-task" /\ q.body.resource = "dl-plan"

(***************************************************************************)
(* C8: each of the four JSON calls makes its operation fail as soon as     *)
(* the decoded answer has a non-zero code, whatever its other fields: Run  *)
(* returns that step's error, and no request follows.  A query-result      *)
(* answer with a non-zero code and state 4 ends polling with an error.     *)
(***************************************************************************)
JsonKinds == {"request-upload", "complete-upload", "create-task", "query-result"}

C8_NonZeroCodeFails ==
    lastResp.kind \in JsonKinds /\ Decoded(lastResp.r) /\ lastResp.r.code # 0 =>
        /\ Returned
        /\ ret.err = StepOf(lastResp.kind)
        /\ ret.cause = "code"
        /\ ret.text = ""
        /\ inflight = {}
        /\ Last(phases) = lastResp.kind

\* query-result answered code 1 with state 4 and a transcript: Run failed
C8_Witness ==
    /\ lastResp.kind = "query-result"
    /\ Decoded(lastResp.r)
    /\ lastResp.r.code = 1
    /\ lastResp.r.data.state = 4
    /\ lastResp.r.data.result.json
    /\ Returned
    /\ ret.err = "pollResult"

(***************************************************************************)
(* C9: an answer with a non-2xx HTTP status makes the operation fail, on   *)
(* every remote call, even when its body carries code 0.                   *)
(***************************************************************************)
C9_Non2xxFails ==
    /\ lastResp.kind # ""
    /\ lastResp.r.err = ""
    /\ lastResp.r.status \notin 200..299
    => Returned /\ ret.err = StepOf(lastResp.kind)

(***************************************************************************)
(* C10: createTask() stores the returned task_id as TaskID exactly when    *)
(* the answer is decoded with code 0; otherwise it returns an error and    *)
(* TaskID keeps the value it had; every query-result request of the        *)
(* pollResult() that follows carries the stored TaskID.                    *)
(***************************************************************************)
C10_TaskIdStates ==
    /\ lastResp.kind = "create-task" =>
          IF Refused(lastResp.r)
          THEN Returned /\ ret.err = "createTask"
          ELSE /\ asr.TaskID = lastResp.r.data.task_id
               /\ pc \in {"pollLoop", "pollWait"}
    /\ \A q \in Requests :
          q.kind = "query-result" =>
              q.query.task_id = asr.TaskID /\ q.query.task_id = got.taskId

C10_TaskIdSteps ==
    /\ pc = "taskWait" /\ pc' = "returned" => asr'.TaskID = asr.TaskID
    /\ pc = "taskWait" /\ pc' = "pollLoop" => asr'.TaskID = lastResp'.r.data.task_id
    /\ pc \in {"pollLoop", "pollWait"} => asr'.TaskID = asr.TaskID

C10_TaskId == []C10_TaskIdStates /\ [][C10_TaskIdSteps]_vars

\* in a second Run create-task is refused with code 1: TaskID is still the first Run's
C10_Witness ==
    /\ runs = 2
    /\ Returned
    /\ ret.err = "createTask"
    /\ lastResp.kind = "create-task"
    /\ Decoded(lastResp.r)
    /\ lastResp.r.code = 1
    /\ lastResp.r.data.task_id = "task-2"
    /\ asr.TaskID = "task-1"

(***************************************************************************)
(* C11: pollResult() ends, and it sends at most 500 query-result requests: *)
(* a query is sent only while fewer than 500 attempts were made; an answer *)
(* with code 0 and a state other than 3 and 4 counts one attempt and,      *)
(* below 500, leads to the next query; after the 500th such answer Run     *)
(* returns the timeout error without another query, and the timeout is     *)
(* returned in no other case.  It ends because while it polls it is never  *)
(* stuck and every step either returns or lowers PollMeasure, which is     *)
(* never below 0.                                                          *)
(***************************************************************************)
NonTerminal(r) == ~Refused(r) /\ r.data.state \notin {3, 4}
Polling == pc \in {"pollLoop", "pollWait"}

\* the steps pollResult() can still take before the loop runs out
PollMeasure == 2 * (MaxPollAttempts - pollI) + (IF pc = "pollLoop" THEN 1 ELSE 0)

C11_PollStates ==
    /\ pollI \in 0..MaxPollAttempts
    /\ pc = "pollWait" => pollI < MaxPollAttempts
    /\ \A q \in inflight : q.kind = "query-result" => pc = "pollWait"
    /\ Polling => PollMeasure >= 1 /\ ENABLED (PollSend \/ PollRecv \/ PollTimeout)
    /\ lastResp.kind = "query-result" /\ NonTerminal(lastResp.r) =>
          IF lastResp.final
          THEN \/ pc = "pollLoop" /\ pollI = MaxPollAttempts /\ inflight = {}
               \/ Returned /\ ret.err = "pollResult" /\ ret.cause = "timeout"
          ELSE Polling /\ pollI \in 1..(MaxPollAttempts - 1)
    /\ Returned /\ ret.cause = "timeout" =>
          /\ lastResp.kind = "query-result"
          /\ NonTerminal(lastResp.r)
          /\ lastResp.final
          /\ inflight = {}

C11_PollSteps ==
    /\ pc' = "pollWait" /\ pc # "pollWait" =>
          /\ pc = "pollLoop"
          /\ pollI < MaxPollAttempts
          /\ pollI' = pollI
          /\ \E q \in inflight' : q.kind = "query-result"
    /\ pollI' # pollI =>
          \/ pollI' = 0
          \/ pollI' = pollI + 1 /\ pc = "pollWait" /\ NonTerminal(lastResp'.r)
    /\ pc = "pollWait" /\ lastResp'.kind = "query-result" /\ NonTerminal(lastResp'.r) =>
          /\ pc' = "pollLoop"
          /\ pollI' = pollI + 1
          /\ lastResp'.final = (pollI' = MaxPollAttempts)
    /\ Polling =>
          \/ pc' = "returned"
          \/ pc' \in {"pollLoop", "pollWait"} /\ PollMeasure' < PollMeasure

C11_PollTerminates == []C11_PollStates /\ [][C11_PollSteps]_vars

\* the 500th answer said state 1 and Run returned the timeout error
C11_Witness ==
    /\ Returned
    /\ ret.err = "pollResult"
    /\ ret.cause = "timeout"
    /\ lastResp.final
    /\ lastResp.r.data.state = 1

(***************************************************************************)
(* C12: an answer with code 0, state 4 and a result that parses ends       *)
(* polling whichever attempt it answers, the 500th included: Run returns   *)
(* without error and without timeout the transcripts of the utterances in  *)
(* the order of the answer, and no query follows.                          *)
(***************************************************************************)
Transcripts(utterances) == [k \in 1..Len(utterances) |-> utterances[k].transcript]

Done(r) == ~Refused(r) /\ r.data.state = 4 /\ r.data.result.json

C12_DoneIsTerminal ==
    lastResp.kind = "query-result" /\ Done(lastResp.r) =>
        /\ Returned
        /\ ret.err = ""
        /\ ret.cause = ""
        /\ ret.text = Join(Transcripts(lastResp.r.data.result.utterances), "\n")
        /\ inflight = {}
        /\ Last(sent).kind = "query-result"

\* the answer to the 500th query said state 4: Run returned its transcript
C12_Witness ==
    /\ lastResp.kind = "query-result"
    /\ Done(lastResp.r)
    /\ lastResp.final
    /\ Len(lastResp.r.data.result.utterances) = 3
    /\ Returned
    /\ ret.text = "a\nb\nc"

(***************************************************************************)
(* C13: an answer with code 0 and state 3 ends polling: Run returns the    *)
(* pollResult error, with a message that carries the remark of the answer  *)
(* or, when the remark is empty, is still not empty; no query follows.     *)
(***************************************************************************)
Failed(r) == ~Refused(r) /\ r.data.state = 3

C13_FailedIsTerminal ==
    lastResp.kind = "query-result" /\ Failed(lastResp.r) =>
        /\ Returned
        /\ ret.err = "pollResult"
        /\ ret.text = ""
        /\ IF lastResp.r.data.remark # ""
           THEN ret.cause = FailedPrefix \o lastResp.r.data.remark
           ELSE ret.cause \notin {"", "timeout", "transport", "code", "decode", "result-parse"}
        /\ inflight = {}
        /\ Last(sent).kind = "query-result"

\* state 3 with the remark "bad audio": the error carries it
C13_Witness ==
    /\ lastResp.kind = "query-result"
    /\ Failed(lastResp.r)
    /\ lastResp.r.data.remark = "bad audio"
    /\ Returned
    /\ ret.err = "pollResult"
    /\ ret.cause = "ASR failed: bad audio"

(***************************************************************************)
(* C14: an answer with code 0 and state 4 whose result does not parse      *)
(* makes Run return the pollResult error of the parse: no transcript, no   *)
(* further query.                                                          *)
(***************************************************************************)
Unparsable(r) == ~Refused(r) /\ r.data.state = 4 /\ ~r.data.result.json

C14_ResultParseError ==
    lastResp.kind = "query-result" /\ Unparsable(lastResp.r) =>
        /\ Returned
        /\ ret.err = "pollResult"
        /\ ret.cause = "result-parse"
        /\ ret.text = ""
        /\ inflight = {}
        /\ Last(sent).kind = "query-result"

\* state 4 with a result that does not parse: Run failed
C14_Witness ==
    /\ lastResp.kind = "query-result"
    /\ Unparsable(lastResp.r)
    /\ Returned
    /\ ret.err = "pollResult"
    /\ ret.cause = "result-parse"

(***************************************************************************)
(* The functions of the extraction and of the transcript, each entered on  *)
(* its own with an argument of its type.  src/core/asr.go holds another    *)
(* videoToAudio and another toText than src/unnamed/part_001: both are     *)
(* modelled, core_ marking those of src/core/asr.go.                       *)
(***************************************************************************)
MaxByte == 255
MaxTracks == 3
MaxUtterances == 3
MaxRate == 100000
MaxChunks == 2
MaxPerChunk == 2
MaxSamples == 4
MaxSize == 2
MaxSampleSize == 66000
MaxChannels == 8
MaxUint16 == 65535

\* the track scan of src/core/asr.go: every AAC, MP3 or Opus track is taken,
\* the scan stops at the first AAC track; 0 is the nil audioTrack
RECURSIVE core_scanTracks(_, _, _)
core_scanTracks(tracks, i, audioTrack) ==
    IF i > Len(tracks) THEN audioTrack
    ELSE IF tracks[i].Cid \in {MP4_CODEC_AAC, MP4_CODEC_MP3, MP4_CODEC_OPUS}
         THEN IF tracks[i].Cid = MP4_CODEC_AAC THEN i
              ELSE core_scanTracks(tracks, i + 1, i)
    ELSE core_scanTracks(tracks, i + 1, audioTrack)

\* videoToAudio of src/core/asr.go: the demuxer hands out the packets of the
\* file until it fails; the output is kept when a packet of the track was read
core_videoToAudio(inputPath, c) ==
    IF ~c.openOk THEN VideoErr("open")
    ELSE IF ~c.probeOk THEN VideoErr("probe")
    ELSE LET t == core_scanTracks(c.tracks, 1, 0) IN
    IF t = 0 THEN VideoErr("no-audio-track")
    ELSE LET track == c.tracks[t]
             audioFormat == IF track.Cid = MP4_CODEC_MP3 THEN "mp3" ELSE "aac"
             hasData == c.readable > 0 /\ Len(track.Samples) > 0
             picked(e, out) == [VideoErr(e) EXCEPT !.track = t, !.codec = track.Cid,
                                                   !.output = out]
         IN
    IF ~c.createOk THEN picked("create", "absent")
    ELSE IF ~hasData THEN picked("empty-output", "removed")
    ELSE [picked("", "written") EXCEPT
             !.path = OutputPath(inputPath, audioFormat),
             !.fmt = audioFormat]

\* toText of src/core/asr.go: the transcripts written one after the other
RECURSIVE core_toText(_)
core_toText(utterances) ==
    IF Len(utterances) = 0 THEN ""
    ELSE utterances[1].transcript \o core_toText(Tail(utterances))

\* the sample entries: none, or any two bytes of OTI and AudOTI
Descriptors == {NoMP4A} \cup {MP4A(oti, aot) : oti \in 0..MaxByte, aot \in 0..MaxByte}

AacLcTrack == AudioTrack(MP4A(OTI_MPEG4_AUDIO, 2), <<1, 0, 1>>)
Mp3Track == AudioTrack(MP4A(OTI_MP3_MPEG1, 0), <<2, 1>>)
HeAacTrack == AudioTrack(MP4A(OTI_MPEG4_AUDIO, 5), <<1, 1>>)

\* the files: those of Run, and every order of up to MaxTracks tracks
TrackKinds == {VideoTrack, AacLcTrack, Mp3Track, HeAacTrack, OpusTrack}
Layouts == UNION {[1..n -> TrackKinds] : n \in 0..MaxTracks}

\* an audio track with the chunk table and the sample table given
TableTrack(mp4a, chunks, samples) ==
    [AudioTrack(mp4a, samples) EXCEPT !.Chunks = chunks]

\* the chunk tables: up to MaxChunks chunks of 0..MaxPerChunk samples, the
\* second chunk lying before the first in the file
ChunkOffsets == <<50, 20>>
ChunkTables ==
    UNION {{[k \in 1..n |-> [DataOffset |-> ChunkOffsets[k], SamplesPerChunk |-> f[k]]] :
              f \in [1..n -> 0..MaxPerChunk]} : n \in 0..MaxChunks}

\* the sample tables: up to MaxSamples sizes, zero among them
SampleTables == UNION {[1..n -> 0..MaxSize] : n \in 0..MaxSamples}

\* one audio track with a chunk table and a sample table; Seek or ReadFull
\* fails after readable samples
TableFile(mp4a, chunks, samples, readable) ==
    [Container(<<TableTrack(mp4a, chunks, samples)>>) EXCEPT !.readable = readable]

\* an AAC track of one sample of the size given
SizeFile(size) == Container(<<AudioTrack(MP4A(OTI_MPEG4_AUDIO, 2), <<size>>)>>)

\* an AAC track whose sample entry reports the channel count given
ChannelFile(n) ==
    Container(<<AudioTrack([MP4A(OTI_MPEG4_AUDIO, 2) EXCEPT !.ChannelCount = n], <<3>>)>>)

MediaFiles == Containers \cup {Container(tracks) : tracks \in Layouts}

UtteranceLists ==
    UNION {[1..n -> {Utterance(t, 0, 10) : t \in {"a", "b", "c", ""}}] :
             n \in 0..MaxUtterances}

Part001 == "unnamed/part_001"
CoreAsr == "core/asr.go"

DetectCall(mp4a) == [fn |-> "detectAudioCodec", src |-> Part001, arg |-> mp4a]

VideoCall(src, c) ==
    [fn |-> "videoToAudio", src |-> src,
     arg |-> [inputPath |-> [stem |-> "v", ext |-> ".mp4"], file |-> c]]

TextCall(src, utterances) == [fn |-> "toText", src |-> src, arg |-> utterances]

RateCall(sampleRate) == [fn |-> "aacFrequencyIndex", src |-> Part001, arg |-> sampleRate]

HeaderCall(profile, freqIdx, chanConf, frameLen) ==
    [fn |-> "makeADTSHeader", src |-> Part001,
     arg |-> [profile |-> profile, freqIdx |-> freqIdx, chanConf |-> chanConf,
              frameLen |-> frameLen]]

\* lengths about the limits of the 13-bit field and of uint16
FrameLens == {0, 1, 100, 2041, 4096, 8184, 8185, 8191, 65528, 65529, MaxUint16}

\* the calls: detectAudioCodec on every sample entry; videoToAudio of either
\* file on the files of Run, on every track order and on every table, and of
\* part_001 on every sample size and channel count; toText of either file;
\* aacFrequencyIndex on every rate; makeADTSHeader on every profile, index
\* and channel configuration with the lengths about the limits, and on
\* every uint16 length for AAC-LC, 44100 Hz, stereo
Entry ==
    \/ \E mp4a \in Descriptors : call = DetectCall(mp4a)
    \/ \E src \in {Part001, CoreAsr}, c \in MediaFiles : call = VideoCall(src, c)
    \/ \E src \in {Part001, CoreAsr},
          mp4a \in {MP4A(OTI_MPEG4_AUDIO, 2), MP4A(OTI_MP3_MPEG1, 0)},
          chunks \in ChunkTables, samples \in SampleTables, readable \in 0..MaxSamples :
            call = VideoCall(src, TableFile(mp4a, chunks, samples, readable))
    \/ \E size \in 1..MaxSampleSize : call = VideoCall(Part001, SizeFile(size))
    \/ \E n \in 0..MaxChannels : call = VideoCall(Part001, ChannelFile(n))
    \/ call = VideoCall(Part001, Container(<<AudioTrack(NoMP4A, <<3>>)>>))
    \/ \E src \in {Part001, CoreAsr}, utterances \in UtteranceLists :
            call = TextCall(src, utterances)
    \/ \E sampleRate \in 0..MaxRate : call = RateCall(sampleRate)
    \/ \E profile \in 0..3, freqIdx \in 0..(Len(rates) - 1), chanConf \in 0..MaxChannels,
          frameLen \in FrameLens :
            call = HeaderCall(profile, freqIdx, chanConf, frameLen)
    \/ \E frameLen \in 0..MaxUint16 : call = HeaderCall(1, 4, 2, frameLen)

InitMedia ==
    /\ asr = NewBcutASR([stem |-> "v", ext |-> ".mp4"])
    /\ pc = "idle"
    /\ runs = 0
    /\ fileData = <<>>
    /\ plan = NoPlan
    /\ idx = 0
    /\ pollI = 0
    /\ ret = NoRet
    /\ inflight = {}
    /\ sent = <<>>
    /\ phases = <<>>
    /\ lastResp = NoResp
    /\ got = NoGot
    /\ Entry
    /\ result = NoResult

Entered(fn, src) == call.fn = fn /\ call.src = src /\ ~result.returned

OnlyResult ==
    UNCHANGED <<asr, pc, runs, fileData, plan, idx, pollI, ret, inflight, sent,
                phases, lastResp, got, call>>

DetectAudioCodec ==
    /\ Entered("detectAudioCodec", Part001)
    /\ result' = [returned |-> TRUE,
                  codec |-> detectAudioCodec(call.arg).codec,
                  profile |-> detectAudioCodec(call.arg).profile]
    /\ OnlyResult

VideoToAudio ==
    /\ Entered("videoToAudio", Part001)
    /\ result' = videoToAudio(call.arg.inputPath, call.arg.file)
    /\ OnlyResult

Core_VideoToAudio ==
    /\ Entered("videoToAudio", CoreAsr)
    /\ result' = core_videoToAudio(call.arg.inputPath, call.arg.file)
    /\ OnlyResult

ToText ==
    /\ Entered("toText", Part001)
    /\ result' = [returned |-> TRUE, text |-> toText(call.arg)]
    /\ OnlyResult

Core_ToText ==
    /\ Entered("toText", CoreAsr)
    /\ result' = [returned |-> TRUE, text |-> core_toText(call.arg)]
    /\ OnlyResult

AacFrequencyIndex ==
    /\ Entered("aacFrequencyIndex", Part001)
    /\ result' = [returned |-> TRUE, index |-> aacFrequencyIndex(call.arg)]
    /\ OnlyResult

MakeADTSHeader ==
    /\ Entered("makeADTSHeader", Part001)
    /\ result' = [returned |-> TRUE,
                  h |-> makeADTSHeader(call.arg.profile, call.arg.freqIdx,
                                       call.arg.chanConf, call.arg.frameLen)]
    /\ OnlyResult

NextMedia ==
    \/ AacFrequencyIndex
    \/ MakeADTSHeader
    \/ DetectAudioCodec
    \/ VideoToAudio
    \/ Core_VideoToAudio
    \/ ToText
    \/ Core_ToText

SpecMedia == InitMedia /\ [][NextMedia]_vars

(***************************************************************************)
(* C15: toText returns the transcripts of the utterances in their order    *)
(* with exactly one newline between two consecutive ones and none at the   *)
(* end: the empty string for no utterance, "a\nb\nc" for a, b, c.          *)
(***************************************************************************)
C15_ToTextJoins ==
    call.fn = "toText" /\ result.returned =>
        /\ result.text = Join(Transcripts(call.arg), "\n")
        /\ Len(call.arg) = 0 => result.text = ""
        /\ Transcripts(call.arg) = <<"a", "b", "c">> => result.text = "a\nb\nc"

(***************************************************************************)
(* C16: videoToAudio selects the first AAC track when the file has one,    *)
(* whatever audio track comes before it; without an AAC track it selects   *)
(* the first MP3 or other audio track; without any audio track it fails.   *)
(***************************************************************************)
IsAac(t) == t.Cid = MP4_CODEC_AAC
IsOtherAudio(t) == t.Cid \in {MP4_CODEC_MP3, MP4_CODEC_OPUS}

FirstAac(tracks) ==
    IF \E i \in 1..Len(tracks) : IsAac(tracks[i])
    THEN CHOOSE i \in 1..Len(tracks) :
            IsAac(tracks[i]) /\ \A j \in 1..(i - 1) : ~IsAac(tracks[j])
    ELSE 0

FirstOtherAudio(tracks) ==
    IF \E i \in 1..Len(tracks) : IsOtherAudio(tracks[i])
    THEN CHOOSE i \in 1..Len(tracks) :
            IsOtherAudio(tracks[i]) /\ \A j \in 1..(i - 1) : ~IsOtherAudio(tracks[j])
    ELSE 0

Preferred(tracks) ==
    IF FirstAac(tracks) # 0 THEN FirstAac(tracks) ELSE FirstOtherAudio(tracks)

C16_PrefersAac ==
    /\ call.fn = "videoToAudio"
    /\ result.returned
    /\ call.arg.file.openOk
    /\ call.arg.file.probeOk
    => IF Preferred(call.arg.file.tracks) = 0
       THEN result.err = "no-audio-track"
       ELSE result.track = Preferred(call.arg.file.tracks)

(***************************************************************************)
(* C17: a sample entry whose audio object type is 5 or 29 is classified    *)
(* as unsupported (HE-AAC), whatever its object type indication is.        *)
(***************************************************************************)
C17_HeAacWhateverOTI ==
    /\ call.fn = "detectAudioCodec"
    /\ result.returned
    /\ call.arg.present
    /\ call.arg.AudOTI \in {5, 29}
    => result.codec = audioCodecHEAAC

(***************************************************************************)
(* C18: when videoToAudio classifies the track as unsupported (HE-AAC) it  *)
(* returns an error and has not created the output file, and the Run that  *)
(* called it returns that error having sent no request; the path of the    *)
(* BcutASR is still the input path.                                        *)
(***************************************************************************)
C18_UnsupportedAborts ==
    call.fn = "videoToAudio" /\ result.returned /\ result.codec = audioCodecHEAAC =>
        /\ result.err = "unsupported"
        /\ result.output = "absent"
        /\ result.path = [stem |-> "", ext |-> ""]
        /\ result.fmt = ""
        /\ runs > 0 =>
             /\ Returned
             /\ ret = [text |-> "", err |-> "videoToAudio", cause |-> "unsupported"]
             /\ sent = <<>>
             /\ phases = <<>>
             /\ inflight = {}
             /\ asr.AudioPath = call.arg.inputPath
             /\ asr.AudioFormat = ""

\* Run on a video whose second track is HE-AAC (OTI 0x40, AOT 5)
C18_Witness ==
    /\ call.fn = "videoToAudio"
    /\ result.returned
    /\ result.codec = audioCodecHEAAC
    /\ result.track = 2
    /\ call.arg.file.tracks[2].MP4A.AudOTI = 5
    /\ Returned
    /\ ret.cause = "unsupported"

(***************************************************************************)
(* C19: detectAudioCodec by the OTI byte: 0x6B and 0x69 are MP3; 0x66,     *)
(* 0x67 and 0x68 are AAC with the profiles 0, 1 and 2; 0x40 is AAC with    *)
(* the profile its AOT gives (AOT 5 and 29, which are refused, apart);     *)
(* every other byte and an absent sample entry are AAC with profile 1.     *)
(***************************************************************************)
C19_OTITable ==
    call.fn = "detectAudioCodec" /\ result.returned =>
        LET d == call.arg
            Is(c, p) == result.codec = c /\ result.profile = p
        IN IF ~d.present THEN Is("AAC", 1)
           ELSE CASE d.OTI \in {107, 105} -> result.codec = "MP3"
                  [] d.OTI = 102 -> Is("AAC", 0)
                  [] d.OTI = 103 -> Is("AAC", 1)
                  [] d.OTI = 104 -> Is("AAC", 2)
                  [] d.OTI = 64 ->
                       d.AudOTI \notin {5, 29} =>
                           Is("AAC", IF d.AudOTI \in 1..4 THEN d.AudOTI - 1 ELSE 1)
                  [] OTHER -> Is("AAC", 1)

\* the byte 0x69 (MPEG-2 layer 3) classified as MP3
C19_Witness ==
    /\ call.fn = "detectAudioCodec"
    /\ call.arg.present
    /\ call.arg.OTI = 105
    /\ result.returned
    /\ result.codec = "MP3"

(***************************************************************************)
(* C20: with OTI 0x40 the AOT values 1, 2, 3 and 4 give AAC with the       *)
(* profiles 0, 1, 2 and 3, and every AOT other than 1, 2, 3, 4, 5 and 29   *)
(* gives AAC with profile 1; the profile returned for any sample entry is  *)
(* one of 0..3.                                                            *)
(***************************************************************************)
C20_AOTProfiles ==
    call.fn = "detectAudioCodec" /\ result.returned =>
        /\ result.profile \in 0..3
        /\ call.arg.present /\ call.arg.OTI = 64 =>
             CASE call.arg.AudOTI = 1 -> result.codec = "AAC" /\ result.profile = 0
               [] call.arg.AudOTI = 2 -> result.codec = "AAC" /\ result.profile = 1
               [] call.arg.AudOTI = 3 -> result.codec = "AAC" /\ result.profile = 2
               [] call.arg.AudOTI = 4 -> result.codec = "AAC" /\ result.profile = 3
               [] call.arg.AudOTI \in {5, 29} -> result.codec = "HEAAC"
               [] OTHER -> result.codec = "AAC" /\ result.profile = 1

\* OTI 0x40 with AOT 4 (LTP): the highest profile
C20_Witness ==
    /\ call.fn = "detectAudioCodec"
    /\ call.arg.present
    /\ call.arg.OTI = 64
    /\ call.arg.AudOTI = 4
    /\ result.returned
    /\ result.codec = "AAC"
    /\ result.profile = 3

(***************************************************************************)
(* C21: aacFrequencyIndex returns the position 0..12 of a rate of the      *)
(* table; for any other rate the position of the first entry, in the       *)
(* descending order of the table, that is not above the rate; 4 for a      *)
(* rate below every entry; and always a value in 0..12.                    *)
(***************************************************************************)
C21_FrequencyIndex ==
    call.fn = "aacFrequencyIndex" /\ result.returned =>
        LET T == <<96000, 88200, 64000, 48000, 44100, 32000, 24000, 22050, 16000,
                   12000, 11025, 8000, 7350>>
            At == {i \in 1..13 : T[i] = call.arg}
            NotAbove == {i \in 1..13 : T[i] <= call.arg}
        IN /\ result.index \in 0..12
           /\ At # {} => result.index + 1 \in At
           /\ At = {} /\ NotAbove # {} =>
                /\ result.index + 1 \in NotAbove
                /\ \A i \in NotAbove : result.index + 1 <= i
           /\ NotAbove = {} => result.index = 4

\* 7349 Hz is below every entry: the default index
C21_Witness ==
    /\ call.fn = "aacFrequencyIndex"
    /\ call.arg = 7349
    /\ result.returned
    /\ result.index = 4

(***************************************************************************)
(* C22: for a profile in 0..3, a frequency index in 0..12 and a channel    *)
(* configuration in 1..7 the header is the seven bytes 0xFF, 0xF1,         *)
(* profile<<6 | freqIndex<<2 | channel>>2, (channel&3)<<6 | bits 12..11    *)
(* of the length, bits 10..3 of it, its bits 2..0 <<5 | 0x1F, 0xFC, the    *)
(* length being the sample size plus 7; the profile, index, channel and    *)
(* length read back from the bytes are the inputs as long as the length    *)
(* fits the 13 bits (100 gives 107); and the channel configuration of the  *)
(* headers of a track that reports no channel count is 2.                  *)
(***************************************************************************)
LengthField(h) == (h[4] % 4) * 2048 + h[5] * 8 + h[6] \div 32
ChannelField(h) == (h[3] % 4) * 4 + h[4] \div 64

C22_HeaderBits ==
    /\ /\ call.fn = "makeADTSHeader"
       /\ result.returned
       /\ call.arg.profile \in 0..3
       /\ call.arg.freqIdx \in 0..12
       /\ call.arg.chanConf \in 1..7
       => LET a == call.arg
              h == result.h
              len == a.frameLen + 7
          IN /\ Len(h) = 7
             /\ h[1] = 255
             /\ h[2] = 241
             /\ h[3] = a.profile * 64 + a.freqIdx * 4 + a.chanConf \div 4
             /\ h[4] = (a.chanConf % 4) * 64 + ((len \div 2048) % 4)
             /\ h[5] = (len \div 8) % 256
             /\ h[6] = (len % 8) * 32 + 31
             /\ h[7] = 252
             /\ h[3] \div 64 = a.profile
             /\ (h[3] \div 4) % 16 = a.freqIdx
             /\ ChannelField(h) = a.chanConf
             /\ len < 8192 => LengthField(h) = len
             /\ a.frameLen = 100 => LengthField(h) = 107
    /\ /\ call.fn = "videoToAudio"
       /\ call.src = "unnamed/part_001"
       /\ result.returned
       /\ result.err = ""
       /\ result.codec = "AAC"
       => LET mp4a == call.arg.file.tracks[result.track].MP4A
              reported == IF mp4a.present THEN mp4a.ChannelCount ELSE 0
          IN \A k \in 1..Len(result.units) :
                /\ reported = 0 => ChannelField(result.units[k].adts) = 2
                /\ reported \in 1..7 => ChannelField(result.units[k].adts) = reported

\* AAC-LC, 44100 Hz, stereo, a sample of 100 bytes: FF F1 50 80 0D 7F FC
C22_Witness ==
    /\ call.fn = "makeADTSHeader"
    /\ call.arg = [profile |-> 1, freqIdx |-> 4, chanConf |-> 2, frameLen |-> 100]
    /\ result.returned
    /\ result.h = <<255, 241, 80, 128, 13, 127, 252>>
    /\ LengthField(result.h) = 107

(***************************************************************************)
(* What the claims about extraction expect, from the tables of the track   *)
(* the extraction selected.                                                *)
(***************************************************************************)
\* a videoToAudio call of part_001 that got as far as the sample table
Extracting ==
    /\ call.fn = "videoToAudio"
    /\ call.src = "unnamed/part_001"
    /\ result.returned
    /\ result.track # 0
    /\ result.err \notin {"unsupported", "create"}

SelectedTrack == call.arg.file.tracks[result.track]

\* min(sum of the chunks' sample counts, length of the sample table)
LocatedCount ==
    Min(SumSeq(SamplesPerChunk(SelectedTrack)), Len(SelectedTrack.Samples))

\* the located samples that have bytes, as positions of the sample table
WithBytes == SelectSeq([k \in 1..LocatedCount |-> k],
                       LAMBDA k : SelectedTrack.Samples[k] # 0)

\* the chunk of the k-th sample, and the first sample of a chunk
ChunkOf(k) ==
    CHOOSE j \in 1..Len(SelectedTrack.Chunks) :
        /\ SumSeq(SubSeq(SamplesPerChunk(SelectedTrack), 1, j - 1)) < k
        /\ k <= SumSeq(SubSeq(SamplesPerChunk(SelectedTrack), 1, j))
FirstOf(j) == SumSeq(SubSeq(SamplesPerChunk(SelectedTrack), 1, j - 1)) + 1

\* the file offset of the k-th sample
OffsetOf(k) ==
    SelectedTrack.Chunks[ChunkOf(k)].DataOffset
    + SumSeq(SubSeq(SelectedTrack.Samples, FirstOf(ChunkOf(k)), k - 1))

(***************************************************************************)
(* C23: for a track whose N samples all have bytes (the chunk table        *)
(* accounting for all of them, every read succeeding) the output is N      *)
(* units in the order of the sample table, the k-th being the bytes of     *)
(* the k-th sample, unmodified, after a 7-byte header for AAC and after    *)
(* nothing for MP3: sum of the sizes plus 7N bytes for AAC, the sum of     *)
(* the sizes for MP3.                                                      *)
(***************************************************************************)
C23_RoundTrip ==
    /\ Extracting
    /\ Len(SelectedTrack.Samples) >= 1
    /\ \A k \in 1..Len(SelectedTrack.Samples) : SelectedTrack.Samples[k] # 0
    /\ LocatedCount = Len(SelectedTrack.Samples)
    /\ call.arg.file.readable >= Len(SelectedTrack.Samples)
    => LET N == Len(SelectedTrack.Samples)
           header == IF result.codec = "MP3" THEN 0 ELSE 7
       IN /\ result.err = ""
          /\ result.output = "written"
          /\ Len(result.units) = N
          /\ \A k \in 1..N :
                /\ result.units[k].size = SelectedTrack.Samples[k]
                /\ result.units[k].offset = OffsetOf(k)
                /\ Len(result.units[k].adts) = header
          /\ result.size = SumSeq(SelectedTrack.Samples) + header * N
          /\ result.fmt = IF result.codec = "MP3" THEN "mp3" ELSE "aac"

\* an AAC track of four samples in two chunks: four units, 28 bytes of headers
C23_Witness ==
    /\ Extracting
    /\ result.err = ""
    /\ result.codec = "AAC"
    /\ SelectedTrack.Samples = <<1, 2, 1, 2>>
    /\ Len(result.units) = 4
    /\ result.size = 6 + 28

(***************************************************************************)
(* C24: samples of size zero do not stop the extraction: when some         *)
(* located sample has bytes (and every read succeeds) the extraction       *)
(* succeeds and its output holds the samples with bytes only, no header    *)
(* and no byte for the others; when every located sample is of size zero   *)
(* the extraction fails as empty and the output file is removed.           *)
(***************************************************************************)
C24_ZeroSizeSamples ==
    /\ Extracting
    /\ LocatedCount >= 1
    /\ call.arg.file.readable >= Len(WithBytes)
    => IF Len(WithBytes) = 0
       THEN /\ result.err = "empty-output"
            /\ result.output = "removed"
            /\ result.units = <<>>
       ELSE /\ result.err = ""
            /\ result.output = "written"
            /\ Len(result.units) = Len(WithBytes)
            /\ \A k \in 1..Len(WithBytes) :
                  /\ result.units[k].size = SelectedTrack.Samples[WithBytes[k]]
                  /\ result.units[k].offset = OffsetOf(WithBytes[k])
            /\ result.size = SumSeq(SelectedTrack.Samples)
                             - SumSeq(SubSeq(SelectedTrack.Samples, LocatedCount + 1,
                                             Len(SelectedTrack.Samples)))
                             + (IF result.codec = "MP3" THEN 0 ELSE 7 * Len(WithBytes))

\* sizes 1, 0, 1: two units
C24_Witness ==
    /\ Extracting
    /\ SelectedTrack.Samples = <<1, 0, 1>>
    /\ LocatedCount = 3
    /\ result.err = ""
    /\ Len(result.units) = 2
    /\ result.codec = "AAC"
    /\ result.size = 2 + 14

\* sizes 0, 0: the extraction fails and removes its output
C24_WitnessAllZero ==
    /\ Extracting
    /\ SelectedTrack.Samples = <<0, 0>>
    /\ LocatedCount = 2
    /\ result.err = "empty-output"
    /\ result.output = "removed"

(***************************************************************************)
(* C25: when a sample of the selected track cannot be located or read,     *)
(* videoToAudio (of either file) returns an error, not a shorter output,   *)
(* and its output file is removed.                                         *)
(***************************************************************************)
C25_SampleIOFailure ==
    /\ call.fn = "videoToAudio"
    /\ result.returned
    /\ result.track # 0
    /\ result.err \notin {"unsupported", "create"}
    /\ \A k \in 1..Len(SelectedTrack.Samples) : SelectedTrack.Samples[k] # 0
    /\ LocatedCount = Len(SelectedTrack.Samples)
    /\ call.arg.file.readable < Len(SelectedTrack.Samples)
    => /\ result.err # ""
       /\ result.output = "removed"
       /\ result.path = [stem |-> "", ext |-> ""]

(***************************************************************************)
(* C28: the located samples are the first min(sum of the chunks' sample    *)
(* counts, length of the sample table) samples; the offset of each is the  *)
(* data offset of its chunk plus the sizes of the earlier samples of that  *)
(* chunk, those of size zero included; a sample table shorter or longer    *)
(* than the chunk table accounts for is no error as long as one sample is  *)
(* located.                                                                *)
(***************************************************************************)
C28_SampleLocations ==
    Extracting =>
        /\ LocatedCount = 0 <=> result.err = "no-sample-table"
        /\ LocatedCount >= 1 =>
             /\ Len(result.table) = LocatedCount
             /\ \A k \in 1..LocatedCount :
                   /\ result.table[k].size = SelectedTrack.Samples[k]
                   /\ result.table[k].offset = OffsetOf(k)
                   /\ k = FirstOf(ChunkOf(k)) =>
                        result.table[k].offset = SelectedTrack.Chunks[ChunkOf(k)].DataOffset

\* two chunks of two samples at 50 and 20, sizes 2, 0, 1 and a fourth sample
\* the table does not have: offsets 50, 52, 20
C28_Witness ==
    /\ Extracting
    /\ SamplesPerChunk(SelectedTrack) = <<2, 2>>
    /\ SelectedTrack.Samples = <<2, 0, 1>>
    /\ result.err = ""
    /\ result.table = <<[offset |-> 50, size |-> 2], [offset |-> 52, size |-> 0],
                        [offset |-> 20, size |-> 1]>>

(***************************************************************************)
(* C30: in the output of an AAC track the 13-bit length field of the       *)
(* header of every unit is the size of the sample plus 7, the number of    *)
(* bytes written for the unit.                                             *)
(***************************************************************************)
C30_HeaderLength ==
    Extracting /\ result.err = "" /\ result.codec = "AAC" =>
        \A k \in 1..Len(result.units) :
            /\ Len(result.units[k].adts) = 7
            /\ LengthField(result.units[k].adts) = result.units[k].size + 7

(***************************************************************************)
(* C26: Run extracts exactly when the extension of its input is not an     *)
(* audio extension, upper case or lower.  Without extraction the format    *)
(* of the request-upload is the extension in lower case without its dot    *)
(* and the path is the input.  With a successful extraction the path is    *)
(* the extracted file, input stem plus "_temp" and ".aac" or ".mp3", the   *)
(* format is the tag the extraction returned and the size is that of the   *)
(* extracted file.  With a failed extraction Run has returned its error    *)
(* and sent nothing.                                                       *)
(***************************************************************************)
KnownAudio(path) ==
    path.ext \in {".mp3", ".MP3", ".wav", ".WAV", ".flac", ".FLAC", ".m4a", ".M4A",
                  ".ogg", ".OGG", ".aac", ".AAC", ".wma", ".WMA"}

FormatOf(path) ==
    CASE path.ext \in {".mp3", ".MP3"} -> "mp3"
      [] path.ext \in {".aac", ".AAC"} -> "aac"
      [] OTHER -> "other"

UploadRequests == {q \in inflight \cup Range(sent) : q.kind = "request-upload"}

C26_PassThrough ==
    runs > 0 =>
        LET extracted == call.fn = "videoToAudio"
            input == IF extracted THEN call.arg.inputPath ELSE asr.AudioPath
        IN /\ extracted <=> ~KnownAudio(input)
           /\ ~extracted =>
                /\ result = NoResult
                /\ asr.AudioFormat = FormatOf(input)
                /\ \A q \in UploadRequests :
                      /\ q.form.resource_file_type = FormatOf(input)
                      /\ q.form.name = "audio." \o FormatOf(input)
           /\ extracted /\ result.err = "" =>
                /\ result.fmt \in {"aac", "mp3"}
                /\ asr.AudioPath = [stem |-> input.stem \o "_temp", ext |-> "." \o result.fmt]
                /\ asr.AudioPath = result.path
                /\ asr.AudioFormat = result.fmt
                /\ \A q \in UploadRequests :
                      /\ q.form.resource_file_type = result.fmt
                      /\ q.form.name = "audio." \o result.fmt
                      /\ q.form.size = ToString(result.size)
           /\ extracted /\ result.err # "" =>
                /\ Returned
                /\ ret = [text |-> "", err |-> "videoToAudio", cause |-> result.err]
                /\ sent = <<>>
                /\ phases = <<>>
                /\ inflight = {}
                /\ asr.AudioPath = input

\* a.MP3 is passed through: its request-upload says mp3
C26_Witness ==
    /\ call = NoCall
    /\ asr.AudioPath = [stem |-> "a", ext |-> ".MP3"]
    /\ \E q \in inflight : q.kind = "request-upload" /\ q.form.resource_file_type = "mp3"

\* v.mp4 is extracted to v_temp.aac, which is what the request-upload is about
C26_WitnessExtracted ==
    /\ call.fn = "videoToAudio"
    /\ call.arg.inputPath = [stem |-> "v", ext |-> ".mp4"]
    /\ asr.AudioPath = [stem |-> "v_temp", ext |-> ".aac"]
    /\ \E q \in inflight : q.kind = "request-upload" /\ q.form.resource_file_type = "aac"

(***************************************************************************)
(* C27: every request the session sends, the chunk PUTs included, carries  *)
(* the custom User-Agent.                                                  *)
(***************************************************************************)
C27_UserAgent == \A q \in inflight : q.ua = "Bilibili/1.0.0 (https://www.bilibili.com)"

(***************************************************************************)
(* C29: for every plan accepted with code 0 and every file length, the     *)
(* start of each chunk is at most the length of the file and at most the   *)
(* end of the chunk, so that the slice of the file is in range and         *)
(* upload() does not panic.                                                *)
(***************************************************************************)
C29_SliceNeverPanics ==
    /\ pc # "panic"
    /\ pc = "putLoop" /\ idx < Len(plan.urls) =>
         /\ idx * plan.perSize <= Len(fileData)
         /\ idx * plan.perSize <= Min(idx * plan.perSize + plan.perSize, Len(fileData))

(***************************************************************************)
(* C31: a Run entered again on the same BcutASR does not mix in the state  *)
(* of the earlier one.  When the answer to request-upload is refused (no   *)
(* answer, no JSON, a non-zero code) upload() returns at once: no PUT and  *)
(* no commit is sent, and ResourceID, UploadID, InBossKey, DownloadURL     *)
(* and Etags are what they were.  When upload() commits, in any Run, its   *)
(* Etags are the ETags of the PUTs of this call, one per URL of this       *)
(* call's plan, and the identifiers it commits are those of this call's    *)
(* plan.                                                                   *)
(***************************************************************************)
C31_RetryStates ==
    /\ lastResp.kind = "request-upload" /\ Refused(lastResp.r) =>
          /\ Returned
          /\ ret.err = "upload"
          /\ phases = <<"request-upload">>
          /\ inflight = {}
    /\ pc = "commitWait" =>
          /\ asr.Etags = got.etags
          /\ Len(asr.Etags) = Len(Puts)
          /\ Len(asr.Etags) = Len(plan.urls)
          /\ asr.ResourceID = "res-" \o ToString(runs)
          /\ asr.UploadID = "upl-" \o ToString(runs)
          /\ asr.InBossKey = "key-" \o ToString(runs)
          /\ \A q \in inflight :
                /\ q.kind = "complete-upload"
                /\ q.form.etags = Join(got.etags, ",")
                /\ q.form.resource_id = asr.ResourceID
                /\ q.form.upload_id = asr.UploadID
                /\ q.form.in_boss_key = asr.InBossKey

C31_RetrySteps ==
    pc = "planWait" /\ pc' = "returned" =>
        /\ asr'.ResourceID = asr.ResourceID
        /\ asr'.UploadID = asr.UploadID
        /\ asr'.InBossKey = asr.InBossKey
        /\ asr'.DownloadURL = asr.DownloadURL
        /\ asr'.Etags = asr.Etags
        /\ asr' = asr

C31_Retry == []C31_RetryStates /\ [][C31_RetrySteps]_vars

\* the first Run uploaded one chunk and failed later; the second Run commits
\* after its own PUT, with the identifiers of its own plan
C31_Witness ==
    /\ runs = 2
    /\ pc = "commitWait"
    /\ asr.ResourceID = "res-2"
    /\ asr.Etags = <<"etag-0">>
    /\ \E q \in inflight : q.kind = "complete-upload" /\ q.form.etags = "etag-0"

\* the second Run is refused at request-upload: the fields are the first Run's
C31_WitnessRefused ==
    /\ runs = 2
    /\ Returned
    /\ ret.err = "upload"
    /\ lastResp.kind = "request-upload"
    /\ Refused(lastResp.r)
    /\ asr.ResourceID = "res-1"
    /\ asr.Etags = <<"etag-0">>

====
